---- MODULE Spec2Model ----
(***************************************************************************)
(* Model of packages/gnc-rust/src/sssp.rs: the CSR graph (SparseGraph),    *)
(* its validation, the solver (EnhancedSSSpSolver) with preprocess / solve *)
(* and the Dijkstra routine over a binary heap.                            *)
(*                                                                         *)
(* Vectors are sequences; the code's 0-based index i is position i + 1.    *)
(* An out-of-range index into a Vec or slice panics in Rust: the model     *)
(* checks every index and records the panic as an outcome.                 *)
(***************************************************************************)
EXTENDS Integers, Sequences, FiniteSets, TLC

VARIABLES
    graph,                       \* EnhancedSSSpSolver.graph
    hop_sets_built,              \* EnhancedSSSpSolver.hop_sets_built
    hierarchical_decomposition,  \* EnhancedSSSpSolver.hierarchical_decomposition
    last,                        \* the last call on the solver and what it returned
    preprocess_returns,          \* history: the values preprocess() has returned so far
    first_solve,                 \* history: the first solve() since the last preprocess()
    run                          \* the locals of one run of solve_dijkstra_optimized

vars == <<graph, hop_sets_built, hierarchical_decomposition, last, preprocess_returns,
          first_solve, run>>

(***************************************************************************)
(* f64 values.  Finite values are small integers (exact in f64); +infinity *)
(* and NaN are two codes far above every finite value the model reaches.   *)
(***************************************************************************)
INFINITY == 1000000
NAN == 2000000

is_nan(x) == x = NAN

is_finite(x) == x # INFINITY /\ x # NAN

\* IEEE comparison: every comparison with NaN is false
f_lt(a, b) == ~is_nan(a) /\ ~is_nan(b) /\ a < b

f_gt(a, b) == f_lt(b, a)

f_le(a, b) == ~is_nan(a) /\ ~is_nan(b) /\ a <= b

\* IEEE addition (the model has no -infinity)
f_add(a, b) ==
    IF is_nan(a) \/ is_nan(b) THEN NAN
    ELSE IF a = INFINITY \/ b = INFINITY THEN INFINITY
    ELSE a + b

\* vec[i] with the code's 0-based index
At(vec, i) == vec[i + 1]

InRange(vec, i) == i >= 0 /\ i < Len(vec)

(***************************************************************************)
(* SparseGraph                                                             *)
(***************************************************************************)
\* SparseGraph::new: edge_count is the length of destinations; no validation
SparseGraph_new(node_count, outgoing_edges, destinations, weights) ==
    [node_count |-> node_count,
     edge_count |-> Len(destinations),
     outgoing_edges |-> outgoing_edges,
     destinations |-> destinations,
     weights |-> weights]

\* the diagnostics validate() logs
MsgOffsetsLength == "Invalid outgoing_edges length"
MsgEdgeArrays == "Invalid edge arrays length"
MsgNonMonotonic == "Non-monotonic edge indices"
MsgDestination == "Invalid destination node"
MsgWeight == "Invalid weight"
MsgPassed == "Graph validation passed"
Panic == "panic"

\* the least element of a non-empty set of naturals
Least(S) == CHOOSE x \in S : \A y \in S : x <= y

\* the loop 'for i in 0..node_count' of validate(): it ends at the first i
\* whose offsets decrease (or cannot be read): "ok", "bad" or "panic"
monotonic_scan(g) ==
    LET stops == { i \in 0..(g.node_count - 1) :
                     \/ ~InRange(g.outgoing_edges, i)
                     \/ ~InRange(g.outgoing_edges, i + 1)
                     \/ At(g.outgoing_edges, i) > At(g.outgoing_edges, i + 1) }
    IN  IF stops = {} THEN "ok"
        ELSE IF ~InRange(g.outgoing_edges, Least(stops) + 1) THEN Panic
        ELSE "bad"

\* the loop 'for &dest in &self.destinations': it ends at the first bad one
destinations_scan(g) ==
    IF \E k \in 1..Len(g.destinations) : g.destinations[k] >= g.node_count
    THEN "bad" ELSE "ok"

weight_check_fails(weight) == f_lt(weight, 0) \/ ~is_finite(weight)

\* the loop 'for &weight in &self.weights': it ends at the first bad one
weights_scan(g) ==
    IF \E k \in 1..Len(g.weights) : weight_check_fails(g.weights[k])
    THEN "bad" ELSE "ok"

\* validate() with the destinations checked before the offsets' order
validate_diag_destinations_first(g) ==
    IF Len(g.outgoing_edges) # g.node_count + 1 THEN MsgOffsetsLength
    ELSE IF Len(g.destinations) # g.edge_count \/ Len(g.weights) # g.edge_count
         THEN MsgEdgeArrays
    ELSE IF destinations_scan(g) = "bad" THEN MsgDestination
    ELSE LET mono == monotonic_scan(g) IN
         IF mono = Panic THEN Panic
         ELSE IF mono = "bad" THEN MsgNonMonotonic
         ELSE IF weights_scan(g) = "bad" THEN MsgWeight
         ELSE MsgPassed

\* validate(), as the diagnostic it ends with (or a panic)
validate_diag(g) ==
    IF Len(g.outgoing_edges) # g.node_count + 1 THEN MsgOffsetsLength
    ELSE IF Len(g.destinations) # g.edge_count \/ Len(g.weights) # g.edge_count
         THEN MsgEdgeArrays
    ELSE LET mono == monotonic_scan(g) IN
         IF mono = Panic THEN Panic
         ELSE IF mono = "bad" THEN MsgNonMonotonic
         ELSE IF destinations_scan(g) = "bad" THEN MsgDestination
         ELSE IF weights_scan(g) = "bad" THEN MsgWeight
         ELSE MsgPassed

\* validate() -> bool
validate(g) == validate_diag(g) = MsgPassed

(***************************************************************************)
(* HeapNode and the priority queue.  std::collections::BinaryHeap is a    *)
(* max-heap held in a vector (children of position p at 2p+1 and 2p+2);   *)
(* push appends and sifts up, pop moves the last element to the root and  *)
(* sifts it down to the bottom and back up.  Positions are 0-based.       *)
(***************************************************************************)
HeapNode(node, distance) == [node |-> node, distance |-> distance]

\* a comparison that breaks ties by node index once a solve has been made: an
\* order among equal distances that differs from one call to the next
HeapNode_cmp_ties_by_call(self, other) ==
    IF is_nan(self.distance) \/ is_nan(other.distance) THEN "Equal"
    ELSE IF other.distance < self.distance THEN "Less"
    ELSE IF other.distance > self.distance THEN "Greater"
    ELSE IF first_solve.op # "solve" \/ self.node = other.node THEN "Equal"
    ELSE IF self.node < other.node THEN "Less"
    ELSE "Greater"

\* the comparison without the reversal (a max-heap on distance)
HeapNode_cmp_unreversed(self, other) ==
    IF is_nan(self.distance) \/ is_nan(other.distance) THEN "Equal"
    ELSE IF self.distance < other.distance THEN "Less"
    ELSE IF self.distance = other.distance THEN "Equal"
    ELSE "Greater"

\* Ord for HeapNode: other.distance.partial_cmp(&self.distance), Equal for NaN
HeapNode_cmp(self, other) ==
    IF is_nan(self.distance) \/ is_nan(other.distance) THEN "Equal"
    ELSE IF other.distance < self.distance THEN "Less"
    ELSE IF other.distance = self.distance THEN "Equal"
    ELSE "Greater"

\* self <= other, from PartialOrd::partial_cmp = Some(cmp)
HeapNode_le(self, other) == HeapNode_cmp(self, other) \in {"Less", "Equal"}

heap_swap(data, p, q) ==
    [data EXCEPT ![p + 1] = data[q + 1], ![q + 1] = data[p + 1]]

RECURSIVE heap_sift_up(_, _, _)
heap_sift_up(data, start, pos) ==
    IF pos <= start THEN data
    ELSE LET parent == (pos - 1) \div 2 IN
         IF HeapNode_le(At(data, pos), At(data, parent)) THEN data
         ELSE heap_sift_up(heap_swap(data, pos, parent), start, parent)

\* a push that appends without sifting up
heap_push_unsifted(data, item) == Append(data, item)

\* heap.push(item)
heap_push(data, item) == heap_sift_up(Append(data, item), 0, Len(data))

\* the descent of sift_down_to_bottom: <<data, final position of the hole>>
RECURSIVE heap_descend(_, _)
heap_descend(data, pos) ==
    LET end == Len(data)
        child == 2 * pos + 1
    IN  IF end >= 2 /\ child <= end - 2
        THEN LET c == IF HeapNode_le(At(data, child), At(data, child + 1))
                      THEN child + 1 ELSE child
             IN  heap_descend(heap_swap(data, pos, c), c)
        ELSE IF child = end - 1 THEN <<heap_swap(data, pos, child), child>>
        ELSE <<data, pos>>

heap_sift_down_to_bottom(data, pos) ==
    LET d == heap_descend(data, pos) IN heap_sift_up(d[1], pos, d[2])

\* heap.pop() on a non-empty heap: the item returned and the heap left
heap_pop(data) ==
    LET item == data[Len(data)]
        rest == SubSeq(data, 1, Len(data) - 1)
    IN  IF rest = <<>> THEN [item |-> item, heap |-> rest]
        ELSE [item |-> rest[1],
              heap |-> heap_sift_down_to_bottom([rest EXCEPT ![1] = item], 0)]

(***************************************************************************)
(* solve_dijkstra_optimized                                                *)
(***************************************************************************)
NoPredecessor == -1

\* the locals of solve_dijkstra_optimized before the loop
dijkstra_init(g, source) ==
    [distances |-> [[i \in 1..g.node_count |-> INFINITY] EXCEPT ![source + 1] = 0],
     predecessors |-> [i \in 1..g.node_count |-> NoPredecessor],
     visited |-> [i \in 1..g.node_count |-> FALSE],
     heap |-> heap_push(<<>>, HeapNode(source, 0)),
     nodes_visited |-> 0,
     edges_relaxed |-> 0,
     panicked |-> FALSE]

\* the relaxation test taken with <= instead of <
relaxes_on_equal(new_distance, old_distance) == f_le(new_distance, old_distance)

\* the relaxation test 'new_distance < distances[neighbor]'
relaxes(new_distance, old_distance) == f_lt(new_distance, old_distance)

\* the loop 'for edge_idx in edge_start..edge_end'
RECURSIVE relax_edges(_, _, _, _, _, _)
relax_edges(g, st, current, current_dist, edge_idx, edge_end) ==
    IF edge_idx >= edge_end THEN st
    ELSE IF ~InRange(g.destinations, edge_idx) \/ ~InRange(g.weights, edge_idx)
         THEN [st EXCEPT !.panicked = TRUE]
    ELSE LET neighbor == At(g.destinations, edge_idx)
             weight == At(g.weights, edge_idx)
             new_distance == f_add(current_dist, weight)
             counted == [st EXCEPT !.edges_relaxed = @ + 1]
         IN  IF ~InRange(st.distances, neighbor)
             THEN [counted EXCEPT !.panicked = TRUE]
             ELSE IF relaxes(new_distance, At(st.distances, neighbor))
             THEN relax_edges(g,
                      [counted EXCEPT
                          !.distances[neighbor + 1] = new_distance,
                          !.predecessors[neighbor + 1] = current,
                          !.heap = IF ~At(st.visited, neighbor)
                                   THEN heap_push(@, HeapNode(neighbor, new_distance))
                                   ELSE @],
                      current, current_dist, edge_idx + 1, edge_end)
             ELSE relax_edges(g, counted, current, current_dist, edge_idx + 1, edge_end)

\* an iteration that does not skip a popped node already visited
dijkstra_step_revisiting(g, st) ==
    LET popped == heap_pop(st.heap)
        current == popped.item.node
        current_dist == popped.item.distance
        after_pop == [st EXCEPT !.heap = popped.heap]
        marked == [after_pop EXCEPT !.visited[current + 1] = TRUE,
                                    !.nodes_visited = @ + 1]
    IN  IF f_gt(current_dist, At(st.distances, current)) THEN marked
        ELSE IF ~InRange(g.outgoing_edges, current)
                \/ ~InRange(g.outgoing_edges, current + 1)
             THEN [marked EXCEPT !.panicked = TRUE]
        ELSE relax_edges(g, marked, current, current_dist,
                         At(g.outgoing_edges, current),
                         At(g.outgoing_edges, current + 1))

\* one iteration of 'while let Some(..) = heap.pop()'
dijkstra_step(g, st) ==
    LET popped == heap_pop(st.heap)
        current == popped.item.node
        current_dist == popped.item.distance
        after_pop == [st EXCEPT !.heap = popped.heap]
    IN  IF At(st.visited, current) THEN after_pop
        ELSE LET marked == [after_pop EXCEPT !.visited[current + 1] = TRUE,
                                             !.nodes_visited = @ + 1]
             IN  IF f_gt(current_dist, At(st.distances, current)) THEN marked
                 ELSE IF ~InRange(g.outgoing_edges, current)
                         \/ ~InRange(g.outgoing_edges, current + 1)
                      THEN [marked EXCEPT !.panicked = TRUE]
                 ELSE relax_edges(g, marked, current, current_dist,
                                  At(g.outgoing_edges, current),
                                  At(g.outgoing_edges, current + 1))

\* the while loop, to its end or to a panic
RECURSIVE dijkstra_loop(_, _)
dijkstra_loop(g, st) ==
    IF st.panicked \/ st.heap = <<>> THEN st
    ELSE dijkstra_loop(g, dijkstra_step(g, st))

TagDijkstra == "dijkstra-optimized"
TagEnhanced == "enhanced-sssp"

\* SSSpResult without wall_time_ms (a clock reading, not modelled)
SSSpResult(distances, predecessors, nodes_visited, edges_relaxed, algorithm_used) ==
    [distances |-> distances,
     predecessors |-> predecessors,
     nodes_visited |-> nodes_visited,
     edges_relaxed |-> edges_relaxed,
     algorithm_used |-> algorithm_used]

NoResult == SSSpResult(<<>>, <<>>, 0, 0, "")

\* an outcome of solve: "ok" with a result, "err" with the source, or "panic"
Outcome(kind, source, result) == [kind |-> kind, source |-> source, result |-> result]

solve_dijkstra_optimized(g, source) ==
    IF source >= g.node_count THEN Outcome(Panic, source, NoResult)
    ELSE LET st == dijkstra_loop(g, dijkstra_init(g, source)) IN
    IF st.panicked THEN Outcome(Panic, source, NoResult)
    ELSE Outcome("ok", source,
                 SSSpResult(st.distances, st.predecessors, st.nodes_visited,
                            st.edges_relaxed, TagDijkstra))

(***************************************************************************)
(* HierarchicalDecomposition                                               *)
(***************************************************************************)
Cluster(id, nodes, boundary_nodes) ==
    [id |-> id, nodes |-> nodes, boundary_nodes |-> boundary_nodes]

\* Option<HierarchicalDecomposition>: None, or Some(clusters, cluster_assignment)
None == [is_some |-> FALSE, clusters |-> <<>>, cluster_assignment |-> <<>>]

Some(clusters, cluster_assignment) ==
    [is_some |-> TRUE, clusters |-> clusters, cluster_assignment |-> cluster_assignment]

MinClusterSize == 32

Max(a, b) == IF a >= b THEN a ELSE b

\* (n as f64).sqrt() as usize: exact for every n below 2^52
RECURSIVE sqrt_from(_, _)
sqrt_from(n, r) == IF (r + 1) * (r + 1) > n THEN r ELSE sqrt_from(n, r + 1)

f64_sqrt_as_usize(n) == sqrt_from(n, 0)

\* a capacity that does not grow with the graph
max_cluster_size_unscaled(n) == MinClusterSize

\* let max_cluster_size = std::cmp::max(32, (n as f64).sqrt() as usize)
max_cluster_size(n) == Max(MinClusterSize, f64_sqrt_as_usize(n))

\* one iteration of the loop 'for node in 0..n' of build_hierarchical_decomposition
cluster_iteration(cap, node, acc) ==
    IF ~InRange(acc.cluster_assignment, node) THEN [acc EXCEPT !.panicked = TRUE]
    ELSE LET cluster_nodes == Append(acc.cluster_nodes, node)
             assigned == [acc EXCEPT !.cluster_assignment[node + 1] = acc.current_cluster]
         IN  IF Len(cluster_nodes) >= cap
             THEN [assigned EXCEPT
                      !.clusters = Append(@, Cluster(acc.current_cluster, cluster_nodes, <<>>)),
                      !.cluster_nodes = <<>>,
                      !.current_cluster = @ + 1]
             ELSE [assigned EXCEPT !.cluster_nodes = cluster_nodes]

\* the iterations lo, lo + 1, .., hi - 1 of that loop, in this order: the first
\* half of the range, then the second (an evaluation of logarithmic depth, as
\* the loop runs over a thousand nodes)
RECURSIVE cluster_loop(_, _, _, _)
cluster_loop(cap, lo, hi, acc) ==
    IF acc.panicked \/ lo >= hi THEN acc
    ELSE IF hi = lo + 1 THEN cluster_iteration(cap, lo, acc)
    ELSE LET mid == (lo + hi) \div 2 IN
         cluster_loop(cap, mid, hi, cluster_loop(cap, lo, mid, acc))

\* the clusters and the assignment before the boundary nodes are identified
build_clusters(g) ==
    LET n == g.node_count
        acc == cluster_loop(max_cluster_size(n), 0, n,
                   [cluster_assignment |-> [i \in 1..n |-> 0],
                    clusters |-> <<>>,
                    current_cluster |-> 0,
                    cluster_nodes |-> <<>>,
                    panicked |-> FALSE])
    IN  [panicked |-> acc.panicked,
         cluster_assignment |-> acc.cluster_assignment,
         clusters |-> IF acc.cluster_nodes # <<>>
                      THEN Append(acc.clusters,
                                  Cluster(acc.current_cluster, acc.cluster_nodes, <<>>))
                      ELSE acc.clusters]

\* the loop 'for edge_idx in edge_start..edge_end' of identify_boundary_nodes,
\* with its break; b is [panicked, set]
RECURSIVE boundary_edges(_, _, _, _, _, _)
boundary_edges(g, assignment, node, edge_idx, edge_end, b) ==
    IF edge_idx >= edge_end THEN b
    ELSE IF ~InRange(g.destinations, edge_idx) THEN [b EXCEPT !.panicked = TRUE]
    ELSE LET neighbor == At(g.destinations, edge_idx) IN
         IF ~InRange(assignment, neighbor) \/ ~InRange(assignment, node)
         THEN [b EXCEPT !.panicked = TRUE]
         ELSE IF At(assignment, neighbor) # At(assignment, node)
         THEN [b EXCEPT !.set = @ \cup {node, neighbor}]
         ELSE boundary_edges(g, assignment, node, edge_idx + 1, edge_end, b)

\* one iteration of the loop 'for &node in &cluster.nodes'
boundary_node(g, assignment, node, b) ==
    IF ~InRange(g.outgoing_edges, node) \/ ~InRange(g.outgoing_edges, node + 1)
    THEN [b EXCEPT !.panicked = TRUE]
    ELSE boundary_edges(g, assignment, node,
                        At(g.outgoing_edges, node), At(g.outgoing_edges, node + 1), b)

\* the iterations for nodes[lo], .., nodes[hi - 1] in this order (first half,
\* then second half), ending at a panic
RECURSIVE boundary_nodes_loop(_, _, _, _, _, _)
boundary_nodes_loop(g, assignment, nodes, lo, hi, b) ==
    IF b.panicked \/ lo >= hi THEN b
    ELSE IF hi = lo + 1 THEN boundary_node(g, assignment, nodes[lo], b)
    ELSE LET mid == (lo + hi) \div 2 IN
         boundary_nodes_loop(g, assignment, nodes, mid, hi,
             boundary_nodes_loop(g, assignment, nodes, lo, mid, b))

\* the loop 'for cluster in clusters.iter()', over clusters[lo], .., clusters[hi - 1]
RECURSIVE boundary_clusters_loop(_, _, _, _, _, _)
boundary_clusters_loop(g, assignment, clusters, lo, hi, b) ==
    IF b.panicked \/ lo >= hi THEN b
    ELSE IF hi = lo + 1
         THEN boundary_nodes_loop(g, assignment, clusters[lo].nodes,
                                  1, Len(clusters[lo].nodes) + 1, b)
    ELSE LET mid == (lo + hi) \div 2 IN
         boundary_clusters_loop(g, assignment, clusters, mid, hi,
             boundary_clusters_loop(g, assignment, clusters, lo, mid, b))

\* the boundary_set of identify_boundary_nodes: [panicked, set]
boundary_set(g, clusters, assignment) ==
    boundary_clusters_loop(g, assignment, clusters, 1, Len(clusters) + 1,
                           [panicked |-> FALSE, set |-> {}])

\* nodes.iter().filter(|node| set.contains(node)).collect(): the elements of
\* nodes that are in set, in their order
Filter(nodes, set) ==
    LET kept == { k \in 1..Len(nodes) : nodes[k] \in set }
        nth(i) == CHOOSE k \in kept : Cardinality({ j \in kept : j < k }) = i - 1
    IN  [i \in 1..Cardinality(kept) |-> nodes[nth(i)]]

\* identify_boundary_nodes: the clusters with boundary_nodes filled in
identify_boundary_nodes(g, clusters, assignment) ==
    LET b == boundary_set(g, clusters, assignment) IN
    [panicked |-> b.panicked,
     clusters |-> [c \in 1..Len(clusters) |->
                      [clusters[c] EXCEPT !.boundary_nodes = Filter(clusters[c].nodes, b.set)]]]

\* build_hierarchical_decomposition: [panicked, decomposition]
build_hierarchical_decomposition(g) ==
    LET built == build_clusters(g)
        marked == identify_boundary_nodes(g, built.clusters, built.cluster_assignment)
    IN  [panicked |-> built.panicked \/ marked.panicked,
         decomposition |-> Some(marked.clusters, built.cluster_assignment)]

(***************************************************************************)
(* EnhancedSSSpSolver                                                      *)
(***************************************************************************)
\* solve_enhanced returning its own counters, which it never advances
solve_enhanced_own_counters(g, decomp, source) ==
    IF source >= g.node_count \/ ~InRange(decomp.cluster_assignment, source)
    THEN Outcome(Panic, source, NoResult)
    ELSE LET dijkstra_result == solve_dijkstra_optimized(g, source) IN
         IF dijkstra_result.kind # "ok" THEN dijkstra_result
         ELSE Outcome("ok", source,
                  SSSpResult(dijkstra_result.result.distances,
                             dijkstra_result.result.predecessors,
                             0, 0, TagEnhanced))

\* solve_enhanced: the Dijkstra result, retagged
solve_enhanced(g, decomp, source) ==
    IF source >= g.node_count \/ ~InRange(decomp.cluster_assignment, source)
    THEN Outcome(Panic, source, NoResult)
    ELSE LET dijkstra_result == solve_dijkstra_optimized(g, source) IN
         IF dijkstra_result.kind # "ok" THEN dijkstra_result
         ELSE Outcome("ok", source,
                  SSSpResult(dijkstra_result.result.distances,
                             dijkstra_result.result.predecessors,
                             dijkstra_result.result.nodes_visited,
                             dijkstra_result.result.edges_relaxed,
                             TagEnhanced))

\* solve with the range check off by one
solve_source_off_by_one(g, built, decomp, source) ==
    IF source > g.node_count THEN Outcome("err", source, NoResult)
    ELSE IF built /\ decomp.is_some THEN solve_enhanced(g, decomp, source)
    ELSE solve_dijkstra_optimized(g, source)

\* solve(source) on a solver with the given fields
solve(g, built, decomp, source) ==
    IF source >= g.node_count THEN Outcome("err", source, NoResult)
    ELSE IF built /\ decomp.is_some THEN solve_enhanced(g, decomp, source)
    ELSE solve_dijkstra_optimized(g, source)

(***************************************************************************)
(* The graphs a solver is constructed with                                 *)
(***************************************************************************)
MaxNodes == 3
MaxEdges == 3
MaxWeight == 1
MaxRawNodes == 2
MaxRawEdges == 2

\* edge lists in CSR order (tails non-decreasing), at most maxLen edges
EdgeLists(nodes, ws, maxLen) ==
    LET E == [u : nodes, v : nodes, w : ws] IN
    UNION { { es \in [1..k -> E] : \A i \in 1..(k - 1) : es[i].u <= es[i + 1].u }
            : k \in 0..maxLen }

\* the CSR arrays of an edge list, as a graph generator lays them out
CSR(n, es) ==
    SparseGraph_new(n,
        [i \in 1..(n + 1) |-> Cardinality({k \in 1..Len(es) : es[k].u < i - 1})],
        [k \in 1..Len(es) |-> es[k].v],
        [k \in 1..Len(es) |-> es[k].w])

\* every well-formed graph of at most MaxNodes nodes and MaxEdges edges
SmallGraphs ==
    UNION { { CSR(n, es) : es \in EdgeLists(0..(n - 1), 0..MaxWeight, MaxEdges) }
            : n \in 0..MaxNodes }

\* graphs of several clusters: edges among a few nodes around the cluster borders
LargeNodeCounts == {34, 65}
MaxLargeEdges == 2
ProbeNodes(n) == {0, 31, 32, n - 1}

LargeGraphs ==
    UNION { { CSR(n, es) : es \in EdgeLists(ProbeNodes(n), {1}, MaxLargeEdges) }
            : n \in LargeNodeCounts }

SetLast(vec, x) == [vec EXCEPT ![Len(vec)] = x]
DropLast(vec) == SubSeq(vec, 1, Len(vec) - 1)

\* malformed arrays a caller can hand to SparseGraph::new: a wrong offsets
\* length, a decreasing offset, a destination of node_count, a weights array
\* of another length, a non-finite weight
Malformed(g) ==
    LET m == Len(g.destinations) IN
    { SparseGraph_new(g.node_count, DropLast(g.outgoing_edges), g.destinations, g.weights),
      SparseGraph_new(g.node_count, Append(g.outgoing_edges, m), g.destinations, g.weights),
      SparseGraph_new(g.node_count, [g.outgoing_edges EXCEPT ![1] = m + 1],
                      g.destinations, g.weights) }
    \cup (IF m = 0 THEN {} ELSE
    { SparseGraph_new(g.node_count, g.outgoing_edges,
                      SetLast(g.destinations, g.node_count), g.weights),
      SparseGraph_new(g.node_count, g.outgoing_edges, g.destinations, DropLast(g.weights)),
      SparseGraph_new(g.node_count, g.outgoing_edges, g.destinations, SetLast(g.weights, NAN)),
      SparseGraph_new(g.node_count, g.outgoing_edges, g.destinations,
                      SetLast(g.weights, INFINITY)) })

\* a last offset one past the edge arrays
Overrun(g) ==
    SparseGraph_new(g.node_count,
                    SetLast(g.outgoing_edges, Len(g.destinations) + 1),
                    g.destinations, g.weights)

\* a negative weight on the last edge
Negative(g) ==
    SparseGraph_new(g.node_count, g.outgoing_edges, g.destinations,
                    IF g.weights = <<>> THEN g.weights ELSE SetLast(g.weights, -1))

\* the 4-node scenario: 0->1 w=1, 0->2 w=5, 1->2 w=2, 2->3 w=1
ScenarioGraph ==
    SparseGraph_new(4, <<0, 2, 3, 4, 4>>, <<1, 2, 2, 3>>, <<1, 5, 2, 1>>)

\* a graph large enough for sqrt(node_count) to exceed MinClusterSize
BigNodeCount == 1100
BigGraphs ==
    { CSR(BigNodeCount, es) :
        es \in EdgeLists({0, BigNodeCount - 1}, {1}, 1) }

MaxMalformedEdges == 1

SolverGraphs ==
    SmallGraphs \cup LargeGraphs \cup BigGraphs \cup {ScenarioGraph}
    \cup { Overrun(g) : g \in SmallGraphs }
    \cup { Negative(g) : g \in SmallGraphs }
    \cup UNION { Malformed(g) : g \in {h \in SmallGraphs : h.edge_count <= MaxMalformedEdges} }

\* every triple of arrays within the raw bounds, well-formed or not
RawWeights == {-1, 0, 1, INFINITY, NAN}

SeqsUpTo(S, maxLen) == UNION { [1..k -> S] : k \in 0..maxLen }

RawGraphs ==
    { SparseGraph_new(n, oe, d, w) :
        n \in 0..MaxRawNodes,
        oe \in SeqsUpTo(0..MaxRawEdges, MaxRawNodes + 1),
        d \in SeqsUpTo(0..MaxRawNodes, MaxRawEdges),
        w \in SeqsUpTo(RawWeights, MaxRawEdges) }

(***************************************************************************)
(* The solver as a state machine: one action per public method             *)
(***************************************************************************)
\* the last call made on the solver: the method, its argument, the value
\* returned, the diagnostic logged by validate(), the outcome of solve()
Call(op, arg, ret, diag, outcome) ==
    [op |-> op, arg |-> arg, ret |-> ret, diag |-> diag, outcome |-> outcome]

NoOutcome == Outcome("", 0, NoResult)

\* no solve() recorded yet
NoCall == [op |-> "none", arg |-> 0, outcome |-> NoOutcome, repeated |-> FALSE]

\* no run of solve_dijkstra_optimized under way
NoRun == [phase |-> "idle"]

\* EnhancedSSSpSolver::new(graph)
InitSolver(graphs) ==
    /\ graph \in graphs
    /\ hop_sets_built = FALSE
    /\ hierarchical_decomposition = None
    /\ last = Call("new", 0, TRUE, "", NoOutcome)
    /\ preprocess_returns = {}
    /\ first_solve = NoCall
    /\ run = NoRun

Init == InitSolver(SolverGraphs)

InitRaw == InitSolver(RawGraphs)

\* graph.validate()
Validate ==
    /\ last' = Call("validate", 0, validate(graph), validate_diag(graph), NoOutcome)
    /\ UNCHANGED <<graph, hop_sets_built, hierarchical_decomposition, preprocess_returns>>

\* preprocess() that builds the decomposition without validating first
Preprocess_unvalidated ==
    LET built == build_hierarchical_decomposition(graph) IN
    IF built.panicked
    THEN /\ last' = Call("preprocess", 0, FALSE, Panic, NoOutcome)
         /\ UNCHANGED <<graph, hop_sets_built, hierarchical_decomposition,
                        preprocess_returns>>
    ELSE /\ hierarchical_decomposition' = built.decomposition
         /\ hop_sets_built' = TRUE
         /\ last' = Call("preprocess", 0, TRUE, MsgPassed, NoOutcome)
         /\ preprocess_returns' = preprocess_returns \cup {TRUE}
         /\ UNCHANGED graph

\* solver.preprocess(); a panic while building leaves the fields as they were
Preprocess ==
    IF ~validate(graph)
    THEN /\ last' = Call("preprocess", 0, FALSE, validate_diag(graph), NoOutcome)
         /\ preprocess_returns' = preprocess_returns \cup {FALSE}
         /\ UNCHANGED <<graph, hop_sets_built, hierarchical_decomposition>>
    ELSE LET built == build_hierarchical_decomposition(graph) IN
         IF built.panicked
         THEN /\ last' = Call("preprocess", 0, FALSE, Panic, NoOutcome)
              /\ UNCHANGED <<graph, hop_sets_built, hierarchical_decomposition,
                             preprocess_returns>>
         ELSE /\ hierarchical_decomposition' = built.decomposition
              /\ hop_sets_built' = TRUE
              /\ last' = Call("preprocess", 0, TRUE, MsgPassed, NoOutcome)
              /\ preprocess_returns' = preprocess_returns \cup {TRUE}
              /\ UNCHANGED graph

\* the sources solve is called with: every index up to node_count + 1 on a small
\* graph; the nodes around the cluster borders and node_count on a large one
Sources(g) ==
    { s \in 0..(g.node_count + 1) :
        g.node_count <= MaxNodes + 1 \/ s \in ProbeNodes(g.node_count) \/ s = g.node_count }

\* solver.solve(source)
Solve(source) ==
    /\ last' = Call("solve", source, TRUE, "",
                    solve(graph, hop_sets_built, hierarchical_decomposition, source))
    /\ UNCHANGED <<graph, hop_sets_built, hierarchical_decomposition, preprocess_returns>>

\* the calls of a solver whose solves and Dijkstra runs are not recorded
Next ==
    \/ Validate /\ UNCHANGED <<first_solve, run>>
    \/ Preprocess /\ UNCHANGED <<first_solve, run>>
    \/ \E source \in Sources(graph) : Solve(source) /\ UNCHANGED <<first_solve, run>>

Spec == Init /\ [][Next]_vars

NextRaw == Validate /\ UNCHANGED <<first_solve, run>>

SpecRaw == InitRaw /\ [][NextRaw]_vars

(***************************************************************************)
(* The solver with its first solve() since the last preprocess() kept, to  *)
(* compare later calls with; on graphs whose shortest paths tie            *)
(***************************************************************************)
\* the diamond 0->{1,2}->3 (either order of the edges of node 0, parallel
\* edges when both lead to the same node): equal-cost paths to node 3
DiamondGraphs ==
    { CSR(4, <<[u |-> 0, v |-> x, w |-> w[1]], [u |-> 0, v |-> y, w |-> w[2]],
               [u |-> 1, v |-> 3, w |-> w[3]], [u |-> 2, v |-> 3, w |-> w[4]]>>) :
        x \in {1, 2}, y \in {1, 2}, w \in [1..4 -> 0..MaxWeight] }

MaxRepeatEdges == 2

RepeatGraphs ==
    { g \in SmallGraphs : g.edge_count <= MaxRepeatEdges }
    \cup DiamondGraphs \cup {ScenarioGraph}

\* the record of solves after the call `call`: the first one is kept, and a
\* later one with the same source is noted
record_solve(first, call) ==
    IF first.op # "solve"
    THEN [op |-> "solve", arg |-> call.arg, outcome |-> call.outcome, repeated |-> FALSE]
    ELSE IF first.arg = call.arg THEN [first EXCEPT !.repeated = TRUE]
    ELSE first

InitRepeat == InitSolver(RepeatGraphs)

NextRepeat ==
    \/ Validate /\ UNCHANGED <<first_solve, run>>
    \/ Preprocess /\ first_solve' = NoCall /\ UNCHANGED run
    \/ \E source \in Sources(graph) :
          /\ Solve(source)
          /\ first_solve' = record_solve(first_solve, last')
          /\ UNCHANGED run

SpecRepeat == InitRepeat /\ [][NextRepeat]_vars

(***************************************************************************)
(* One run of solve_dijkstra_optimized, an iteration of its loop at a      *)
(* step: run holds the locals, the entry popped last and the distance of   *)
(* the last entry popped for an unvisited node                             *)
(***************************************************************************)
DijkstraGraphs ==
    SmallGraphs \cup DiamondGraphs \cup {ScenarioGraph}
    \cup { Negative(g) : g \in SmallGraphs }

InitDijkstra == InitSolver(DijkstraGraphs)

NoPop == [node |-> 0, distance |-> 0, unvisited |-> FALSE, skipped |-> FALSE]

\* entry of solve_dijkstra_optimized(source), up to the loop
Start(source) ==
    /\ run.phase \in {"idle", "done"}
    /\ source < graph.node_count
    /\ run' = [phase |-> "loop", source |-> source,
               st |-> dijkstra_init(graph, source),
               popped |-> NoPop, floor |-> 0]
    /\ UNCHANGED <<graph, hop_sets_built, hierarchical_decomposition, last,
                   preprocess_returns, first_solve>>

\* one iteration of the while loop: the pop, the two tests, the relaxations
Iterate ==
    /\ run.phase = "loop"
    /\ ~run.st.panicked /\ run.st.heap # <<>>
    /\ LET item == heap_pop(run.st.heap).item
           unvisited == ~At(run.st.visited, item.node)
       IN  run' = [run EXCEPT
                      !.st = dijkstra_step(graph, run.st),
                      !.popped = [node |-> item.node,
                                  distance |-> item.distance,
                                  unvisited |-> unvisited,
                                  skipped |-> unvisited
                                      /\ f_gt(item.distance,
                                              At(run.st.distances, item.node))],
                      !.floor = IF unvisited THEN item.distance ELSE @]
    /\ UNCHANGED <<graph, hop_sets_built, hierarchical_decomposition, last,
                   preprocess_returns, first_solve>>

\* the loop has ended (heap empty, or a panic): Ok(SSSpResult {..})
Return ==
    /\ run.phase = "loop"
    /\ run.st.panicked \/ run.st.heap = <<>>
    /\ run' = [run EXCEPT !.phase = "done"]
    /\ UNCHANGED <<graph, hop_sets_built, hierarchical_decomposition, last,
                   preprocess_returns, first_solve>>

NextDijkstra ==
    \/ \E source \in Sources(graph) : Start(source)
    \/ Iterate
    \/ Return

SpecDijkstra == InitDijkstra /\ [][NextDijkstra]_vars

(***************************************************************************)
(* What the properties are stated with: the graph a CSR triple denotes,    *)
(* and shortest paths computed without a queue                             *)
(***************************************************************************)
\* invariants 1-4 of the data model, and the parallel length of weights
OffsetsLengthOk(g) == Len(g.outgoing_edges) = g.node_count + 1

OffsetsMonotonic(g) ==
    \A i \in 1..(Len(g.outgoing_edges) - 1) : g.outgoing_edges[i] <= g.outgoing_edges[i + 1]

DestinationsOk(g) == \A k \in 1..Len(g.destinations) : g.destinations[k] < g.node_count

WeightsOk(g) ==
    \A k \in 1..Len(g.weights) :
        g.weights[k] >= 0 /\ g.weights[k] # INFINITY /\ g.weights[k] # NAN

WeightsLengthOk(g) == Len(g.weights) = Len(g.destinations)

\* every offset points into the edge arrays (or just past their end)
OffsetsWithin(g) ==
    \A i \in 1..Len(g.outgoing_edges) : g.outgoing_edges[i] <= Len(g.destinations)

StructureOk(g) ==
    /\ OffsetsLengthOk(g) /\ OffsetsMonotonic(g) /\ DestinationsOk(g)
    /\ WeightsLengthOk(g) /\ OffsetsWithin(g)

\* a validated graph whose offsets lie within the edge arrays
InContract(g) == StructureOk(g) /\ WeightsOk(g)

\* the edges of a structurally sound graph: edge k (0-based) leaves node u
EdgesOf(g) ==
    { [u |-> u, v |-> g.destinations[k + 1], w |-> g.weights[k + 1], k |-> k] :
        <<u, k>> \in { p \in (0..(g.node_count - 1)) \X (0..(Len(g.destinations) - 1)) :
                         /\ g.outgoing_edges[p[1] + 1] <= p[2]
                         /\ p[2] < g.outgoing_edges[p[1] + 2] } }

MinOf(S) == CHOOSE x \in S : \A y \in S : x <= y

\* Bellman-Ford: the least cost of a walk of at most `rounds` edges from source
RECURSIVE PathCost(_, _, _, _)
PathCost(g, edges, source, rounds) ==
    IF rounds = 0
    THEN [v \in 0..(g.node_count - 1) |-> IF v = source THEN 0 ELSE INFINITY]
    ELSE LET d == PathCost(g, edges, source, rounds - 1) IN
         [v \in 0..(g.node_count - 1) |->
             MinOf({d[v]} \cup { IF d[e.u] = INFINITY THEN INFINITY ELSE d[e.u] + e.w :
                                 e \in { x \in edges : x.v = v } })]

\* a shortest path has fewer edges than there are nodes, and no more than there are edges
ShortestCost(g, source) ==
    LET edges == EdgesOf(g)
        rounds == IF g.node_count - 1 < Cardinality(edges)
                  THEN g.node_count - 1 ELSE Cardinality(edges)
    IN  PathCost(g, edges, source, rounds)

\* the last call was solve(source) with source < node_count
SolvedValidSource == last.op = "solve" /\ last.arg < graph.node_count

(***************************************************************************)
(* Properties                                                              *)
(***************************************************************************)
\* C1: on every graph validate() accepts, solve(source) with source <
\* node_count returns a result and preprocess runs its boundary scan, no index
\* into offsets, destinations or weights being out of range (no panic).
C1_ValidatedCallsStayInBounds ==
    validate(graph) =>
        /\ SolvedValidSource => last.outcome.kind = "ok"
        /\ last.op = "preprocess" => last.diag # Panic

\* C2: on a validated graph with offsets within the edge arrays, solve(source)
\* returns distances[source] = 0, the least path cost for every reachable
\* node and +infinity for every other node, so distances[v] <= distances[u] + w
\* on every edge; the 4-node scenario gives [0, 1, 3, 4].
C2_DistancesAreShortest ==
    (InContract(graph) /\ SolvedValidSource) =>
        /\ last.outcome.kind = "ok"
        /\ LET dist == last.outcome.result.distances
               best == ShortestCost(graph, last.arg)
           IN  /\ Len(dist) = graph.node_count
               /\ dist[last.arg + 1] = 0
               /\ \A v \in 0..(graph.node_count - 1) : dist[v + 1] = best[v]
               /\ \A e \in EdgesOf(graph) :
                     dist[e.u + 1] # INFINITY => dist[e.v + 1] <= dist[e.u + 1] + e.w
               /\ (graph = ScenarioGraph /\ last.arg = 0) => dist = <<0, 1, 3, 4>>

\* C2 witness: the scenario solved from node 0, node 2 reached at cost 3 over
\* node 1 after the direct edge had given 5
C2_Witness ==
    /\ graph = ScenarioGraph
    /\ SolvedValidSource /\ last.arg = 0
    /\ last.outcome.kind = "ok"
    /\ last.outcome.result.distances = <<0, 1, 3, 4>>

Range(seq) == { seq[i] : i \in 1..Len(seq) }

\* the edges whose endpoints the decomposition puts in different clusters
CrossEdges(g, assignment) ==
    { e \in EdgesOf(g) : assignment[e.u + 1] # assignment[e.v + 1] }

\* C3: after a successful preprocess both endpoints of every cross-cluster
\* edge are boundary nodes, and a node is in its cluster's boundary_nodes
\* exactly when it is the tail or the head of some cross-cluster edge.
C3_BoundaryIsEveryCrossEdgeEndpoint ==
    hop_sets_built =>
        LET clusters == hierarchical_decomposition.clusters
            cross == CrossEdges(graph, hierarchical_decomposition.cluster_assignment)
            ends == { e.u : e \in cross } \cup { e.v : e \in cross }
        IN  \A c \in 1..Len(clusters) :
                Range(clusters[c].boundary_nodes) = Range(clusters[c].nodes) \cap ends

\* C4: solve(source) returns the invalid-source error, carrying source, exactly
\* when source >= node_count, whether or not the solver is preprocessed; the
\* failing call relaxes nothing and leaves graph, decomposition and flag as
\* they were.
C4_InvalidSourceError ==
    [][ last'.op = "solve" =>
          /\ (last'.outcome.kind = "err") <=> (last'.arg >= graph.node_count)
          /\ last'.outcome.kind = "err" =>
                /\ last'.outcome.source = last'.arg
                /\ last'.outcome.result = NoResult
                /\ UNCHANGED <<graph, hop_sets_built, hierarchical_decomposition>> ]_vars

\* C4 witness: a preprocessed solver refused source = node_count
C4_Witness ==
    /\ last.op = "solve"
    /\ last.arg = graph.node_count
    /\ graph.node_count > 0
    /\ hop_sets_built
    /\ last.outcome.kind = "err"
    /\ last.outcome.source = graph.node_count

\* a structurally well-formed graph with finite weights, one of them negative
NegativeWeighted(g) ==
    /\ StructureOk(g)
    /\ \A k \in 1..Len(g.weights) : g.weights[k] # INFINITY /\ g.weights[k] # NAN
    /\ \E k \in 1..Len(g.weights) : g.weights[k] < 0

\* C5: while validate() fails, every preprocess() returns false and the solver
\* stays Unprocessed (no decomposition, flag false); on a well-formed graph with
\* a negative weight preprocess returns false and every solve(source) with
\* source < node_count returns a result tagged dijkstra-optimized, after any
\* number of preprocess and solve calls.
C5_FailedValidationLeavesUnprocessed ==
    /\ ~validate(graph) =>
          /\ ~hop_sets_built
          /\ hierarchical_decomposition = None
          /\ TRUE \notin preprocess_returns
          /\ last.op = "preprocess" => last.ret = FALSE
    /\ NegativeWeighted(graph) =>
          /\ ~validate(graph)
          /\ TRUE \notin preprocess_returns
          /\ SolvedValidSource =>
                /\ last.outcome.kind = "ok"
                /\ last.outcome.result.algorithm_used = TagDijkstra
                /\ Len(last.outcome.result.distances) = graph.node_count

\* C5 witness: preprocess has returned false on a graph with a negative
\* weight, and a later solve went along the negative edge
C5_Witness ==
    /\ NegativeWeighted(graph)
    /\ FALSE \in preprocess_returns
    /\ ~hop_sets_built
    /\ SolvedValidSource
    /\ last.outcome.kind = "ok"
    /\ last.outcome.result.algorithm_used = TagDijkstra
    /\ \E v \in 1..graph.node_count : last.outcome.result.distances[v] < 0

\* C6: after any calls, solve(source) with source < node_count tags its result
\* enhanced-sssp exactly when some preprocess has returned true and
\* dijkstra-optimized otherwise, and it returns the distances, predecessors,
\* nodes_visited and edges_relaxed that an Unprocessed solver returns for
\* the same graph and source.
C6_TagFollowsPreprocessedOnly ==
    SolvedValidSource =>
        LET unprocessed == solve(graph, FALSE, None, last.arg)
            got == last.outcome.result
        IN  /\ last.outcome.kind = unprocessed.kind
            /\ last.outcome.kind = "ok" =>
                  /\ got.algorithm_used = TagEnhanced <=> TRUE \in preprocess_returns
                  /\ got.algorithm_used = TagDijkstra <=> TRUE \notin preprocess_returns
                  /\ unprocessed.result.algorithm_used = TagDijkstra
                  /\ got.distances = unprocessed.result.distances
                  /\ got.predecessors = unprocessed.result.predecessors
                  /\ got.nodes_visited = unprocessed.result.nodes_visited
                  /\ got.edges_relaxed = unprocessed.result.edges_relaxed

\* C6 witness: a preprocessed solver returned a result tagged enhanced-sssp
\* after visiting two nodes or more
C6_Witness ==
    /\ TRUE \in preprocess_returns
    /\ SolvedValidSource
    /\ last.outcome.kind = "ok"
    /\ last.outcome.result.algorithm_used = TagEnhanced
    /\ last.outcome.result.nodes_visited >= 2
    /\ last.outcome.result.edges_relaxed >= 2

\* the number of predecessor steps from v to source, or -1 when the chain
\* ends elsewhere or comes back to a node in seen
RECURSIVE ChainSteps(_, _, _, _)
ChainSteps(pred, source, v, seen) ==
    IF v = source THEN Cardinality(seen)
    ELSE IF v \in seen \/ v < 0 \/ v >= Len(pred) THEN -1
    ELSE ChainSteps(pred, source, pred[v + 1], seen \cup {v})

\* C7: on a validated graph with offsets within the edge arrays the
\* predecessors of solve(source) are a shortest-path tree rooted at source:
\* none at source and at every unreachable node; at every other reachable v
\* a node u with an edge (u,v,w) and distances[v] = distances[u] + w; and the
\* chain from any reachable node arrives at source within node_count - 1
\* steps without repeating a node, zero-weight cycles included.
C7_PredecessorsFormShortestPathTree ==
    (InContract(graph) /\ SolvedValidSource) =>
        /\ last.outcome.kind = "ok"
        /\ LET dist == last.outcome.result.distances
               pred == last.outcome.result.predecessors
               best == ShortestCost(graph, last.arg)
           IN  /\ Len(pred) = graph.node_count
               /\ pred[last.arg + 1] = NoPredecessor
               /\ \A v \in 0..(graph.node_count - 1) :
                     IF best[v] = INFINITY THEN pred[v + 1] = NoPredecessor
                     ELSE /\ v # last.arg =>
                                \E e \in EdgesOf(graph) :
                                    /\ e.v = v
                                    /\ e.u = pred[v + 1]
                                    /\ dist[v + 1] = dist[e.u + 1] + e.w
                          /\ ChainSteps(pred, last.arg, v, {}) \in 0..(graph.node_count - 1)

\* C7 witness: solve from a node on a zero-weight cycle, with a node two
\* predecessor steps away from the source
C7_Witness ==
    /\ InContract(graph) /\ SolvedValidSource
    /\ last.outcome.kind = "ok"
    /\ \E e1, e2 \in EdgesOf(graph) :
          /\ e1.u = last.arg /\ e1.v # e1.u /\ e1.w = 0
          /\ e2.u = e1.v /\ e2.v = e1.u /\ e2.w = 0
          /\ last.outcome.result.predecessors[e1.v + 1] = e1.u
    /\ \E v \in 0..(graph.node_count - 1) :
          ChainSteps(last.outcome.result.predecessors, last.arg, v, {}) = 2

\* C8: on a validated graph with offsets within the edge arrays
\* solve(source) returns nodes_visited <= node_count, and edges_relaxed equal
\* to the number of edges leaving the nodes reachable from source, each edge
\* counted once whether or not it improves a distance.
C8_CountersMatchReachableEdges ==
    (InContract(graph) /\ SolvedValidSource) =>
        /\ last.outcome.kind = "ok"
        /\ LET best == ShortestCost(graph, last.arg) IN
           /\ last.outcome.result.nodes_visited <= graph.node_count
           /\ last.outcome.result.edges_relaxed =
                 Cardinality({ e \in EdgesOf(graph) : best[e.u] # INFINITY })

\* C8 witness: the scenario from node 0, where node 2 is queued twice (at 5,
\* then at 3) and the edge 0->2 is counted although 1->2 supersedes it
C8_Witness ==
    /\ graph = ScenarioGraph
    /\ SolvedValidSource /\ last.arg = 0
    /\ last.outcome.kind = "ok"
    /\ last.outcome.result.nodes_visited = 4
    /\ last.outcome.result.edges_relaxed = 4
    /\ last.outcome.result.predecessors = <<NoPredecessor, 0, 1, 2>>

\* the diagnostic of the first of the four invariants that g violates
FirstViolated(g) ==
    IF ~OffsetsLengthOk(g) THEN MsgOffsetsLength
    ELSE IF ~OffsetsMonotonic(g) THEN MsgNonMonotonic
    ELSE IF ~DestinationsOk(g) THEN MsgDestination
    ELSE IF ~WeightsOk(g) THEN MsgWeight
    ELSE MsgPassed

\* C9: validate() tests (1) the offsets length, (2) the offsets' order, (3) the
\* destinations, (4) the weights, in this order, and returns false at the
\* first one violated; it returns true only if all four hold, and for every
\* well-formed triple; it reads no array out of range and leaves the graph
\* (and the solver) as it was.  Between (1) and (2) the code also compares the
\* lengths of the edge arrays with edge_count.
C9_ValidateChecksInOrder ==
    [][ last'.op = "validate" =>
          /\ UNCHANGED <<graph, hop_sets_built, hierarchical_decomposition>>
          /\ last'.diag # Panic
          /\ last'.ret = (last'.diag = MsgPassed)
          /\ last'.ret => FirstViolated(graph) = MsgPassed
          /\ (FirstViolated(graph) = MsgPassed /\ WeightsLengthOk(graph)) => last'.ret
          /\ ~OffsetsLengthOk(graph) => last'.diag = MsgOffsetsLength
          /\ WeightsLengthOk(graph) => last'.diag = FirstViolated(graph)
          /\ (OffsetsLengthOk(graph) /\ ~WeightsLengthOk(graph)) =>
                last'.diag = MsgEdgeArrays ]_vars

\* C9 witness: validate() has stopped at decreasing offsets on a graph that
\* also has a destination out of range and a bad weight
C9_Witness ==
    /\ last.op = "validate"
    /\ last.ret = FALSE
    /\ last.diag = MsgNonMonotonic
    /\ ~DestinationsOk(graph)
    /\ ~WeightsOk(graph)

\* the decomposition d splits the nodes of g, in index order, into blocks of
\* c = max(32, floor(sqrt(node_count))) nodes
DecompositionOk(g, d) ==
    LET n == g.node_count
        root == CHOOSE r \in 0..n : r * r <= n /\ n < (r + 1) * (r + 1)
        c == IF root > 32 THEN root ELSE 32
        count == (n + c - 1) \div c
    IN  /\ d.is_some
        /\ Len(d.cluster_assignment) = n
        /\ \A i \in 0..(n - 1) :
              /\ d.cluster_assignment[i + 1] = i \div c
              /\ i \in Range(d.clusters[(i \div c) + 1].nodes)
        /\ Len(d.clusters) = count
        /\ \A k \in 0..(count - 1) :
              LET cl == d.clusters[k + 1]
                  size == (IF (k + 1) * c < n THEN (k + 1) * c ELSE n) - k * c
              IN  /\ cl.id = k
                  /\ cl.nodes = [j \in 1..size |-> k * c + j - 1]
                  /\ Len(cl.nodes) > 0
                  /\ k < count - 1 => Len(cl.nodes) = c

\* C10: after every successful preprocess the decomposition partitions the
\* nodes in ascending index order with capacity c = max(32,
\* floor(sqrt(node_count))): cluster_assignment[i] = floor(i / c), cluster k
\* has id k and exactly the nodes of block k, no cluster is empty, all but the
\* last hold c nodes, node_count = 0 gives none; and a preprocess on a
\* Preprocessed solver yields the assignment it had.
C10_ClustersPartitionInIndexOrder ==
    [][ hop_sets_built' =>
          /\ DecompositionOk(graph', hierarchical_decomposition')
          /\ graph'.node_count = 0 => hierarchical_decomposition'.clusters = <<>>
          /\ hop_sets_built =>
                hierarchical_decomposition'.cluster_assignment
                    = hierarchical_decomposition.cluster_assignment ]_vars

\* C10 witness: a preprocessed graph of more than 33 * 33 nodes, in clusters
\* of 33 nodes with a smaller last one
C10_Witness ==
    /\ hop_sets_built
    /\ TRUE \in preprocess_returns
    /\ graph.node_count > 33 * 33
    /\ Len(hierarchical_decomposition.clusters[1].nodes) = 33
    /\ LET clusters == hierarchical_decomposition.clusters IN
       /\ Len(clusters) > 33
       /\ Len(clusters[Len(clusters)].nodes) \in 1..32
       /\ hierarchical_decomposition.cluster_assignment[graph.node_count]
             = Len(clusters) - 1

C12_PoppedDistanceIsFinal ==
    [][ (InContract(graph) /\ run.phase = "loop" /\ run'.phase = "loop") =>
          /\ run'.popped.unvisited =>
                /\ run'.popped.distance = At(run.st.distances, run'.popped.node)
                /\ ~run'.popped.skipped
                /\ run'.popped.distance >= run.floor
                /\ At(run'.st.visited, run'.popped.node)
          /\ ~run'.st.panicked
          /\ \A v \in 0..(graph.node_count - 1) :
                At(run'.st.visited, v) =>
                    /\ At(run'.st.distances, v) = At(run.st.distances, v)
                    /\ At(run'.st.predecessors, v) = At(run.st.predecessors, v) ]_vars

\* C12 witness: in the scenario from node 0, node 2 is popped unvisited at
\* distance 3 = distances[2] while its older entry at distance 5 is still
\* in the heap
C12_Witness ==
    /\ graph = ScenarioGraph
    /\ run.phase = "loop" /\ run.source = 0
    /\ run.popped = [node |-> 2, distance |-> 3, unvisited |-> TRUE, skipped |-> FALSE]
    /\ At(run.st.distances, 2) = 3
    /\ \E k \in 1..Len(run.st.heap) : run.st.heap[k] = HeapNode(2, 5)

====
